---- MODULE Spec2Model ----
(***************************************************************************)
(* A model of the scrop assembler (src/assembler/main.py).                 *)
(*                                                                         *)
(* Text is a sequence of characters.  A printable ASCII character is the   *)
(* string that holds it; any other character is named by its code point,   *)
(* "chr(233)", and so is the grave accent, "chr(96)".  A Python int is a   *)
(* sign and a magnitude, the magnitude a little-endian sequence of bytes   *)
(* without leading zero bytes, so that 2**62 and 2**64 are ordinary        *)
(* values.  bytes are sequences of numbers in 0..255.  A call either       *)
(* returns, Return(v), or raises, Raise(exc, text, args): text is the      *)
(* message as the source writes it and args are the values formatted into  *)
(* it.  What a call raises goes on to its caller: an operator that takes   *)
(* the result of a call hands an error on as it is.                        *)
(***************************************************************************)
EXTENDS Integers, Sequences, FiniteSets, TLC

VARIABLES
  stdin,      \* the lines sys.stdin.readlines() returns
  lines,      \* the lines the loop of main goes over
  pos,        \* the number of the line the loop is at
  immediate,  \* the variable immediate of main
  out,        \* the bytes written to file descriptor 1
  pc,         \* "loop", "done" once main has returned, "failed" once it has raised
  error,      \* the exception main raised
  tok,        \* the argument of a call of parse_immediate
  val,        \* what that call returned or raised
  word,       \* what serialize_immediate returned for the value
  epc         \* "parse", "parsed", "serialized" or "raised"

vars == <<stdin, lines, pos, immediate, out, pc, error, tok, val, word, epc>>
asmVars == <<stdin, lines, pos, immediate, out, pc, error>>
encVars == <<tok, val, word, epc>>

(***************************************************************************)
(* Bounds of the model.                                                    *)
(***************************************************************************)
\* the number of lines an input has at most before its last line
MaxLines == 2
\* the number of characters that follow the prefix #\ in a generated token
MaxCharData == 3
\* the number of trailing digits varied around the decimal form of 2**62
MaxSuffix == 1
\* the longest generated digit string
MaxDigits == 2

(***************************************************************************)
(* Results of calls.                                                       *)
(***************************************************************************)
Return(v) == [ok |-> TRUE, val |-> v]

Raise(e, t, a) == [ok |-> FALSE, exc |-> e, text |-> t, args |-> a]

(***************************************************************************)
(* Characters.                                                             *)
(***************************************************************************)
Printable ==
  << " ", "!", "\"", "#", "$", "%", "&", "'", "(", ")", "*", "+",
     ",", "-", ".", "/", "0", "1", "2", "3", "4", "5", "6", "7",
     "8", "9", ":", ";", "<", "=", ">", "?", "@", "A", "B", "C",
     "D", "E", "F", "G", "H", "I", "J", "K", "L", "M", "N", "O",
     "P", "Q", "R", "S", "T", "U", "V", "W", "X", "Y", "Z", "[",
     "\\", "]", "^", "_", "chr(96)", "a", "b", "c", "d", "e", "f", "g",
     "h", "i", "j", "k", "l", "m", "n", "o", "p", "q", "r", "s",
     "t", "u", "v", "w", "x", "y", "z", "{", "|", "}", "~" >>

\* the code points of the characters the model reads
CodePoints == (0..255) \cup {1635}

\* the character with code point n
CharOf(n) ==
  CASE n = 9 -> "\t"
    [] n = 10 -> "\n"
    [] n = 13 -> "\r"
    [] n >= 32 /\ n <= 126 -> Printable[n - 31]
    [] OTHER -> "chr(" \o ToString(n) \o ")"

\* the characters the model reads, each with its code point
CodePointOf ==
  [c \in {CharOf(n) : n \in CodePoints} |-> CHOOSE n \in CodePoints : CharOf(n) = c]

\* ord(c)
Ord(c) == CodePointOf[c]

\* str.isascii()
isascii(s) == \A i \in 1..Len(s) : Ord(s[i]) < 128

DecimalDigits == <<"0", "1", "2", "3", "4", "5", "6", "7", "8", "9">>

\* str.isnumeric(): every character is numeric and there is at least one
isnumeric(s) ==
  /\ Len(s) > 0
  /\ \A i \in 1..Len(s) :
       Ord(s[i]) \in (48..57) \cup {178, 179, 185, 188, 189, 190, 1635}

\* the characters str.isspace() holds of
Whitespace == {CharOf(n) : n \in {9, 10, 11, 12, 13, 28, 29, 30, 31, 32, 133, 160}}

IsSpace(c) == c \in Whitespace

\* the value of the character with code point o as a digit, -1 when it is none
DigitOf(o) ==
  CASE o >= 48 /\ o <= 57 -> o - 48
    [] o >= 97 /\ o <= 122 -> o - 87
    [] o >= 65 /\ o <= 90 -> o - 55
    [] o = 1635 -> 3
    [] OTHER -> -1

\* the value of c as a digit of the base, -1 when it is none
DigitValue(c, base) == IF DigitOf(Ord(c)) < base THEN DigitOf(Ord(c)) ELSE -1

(***************************************************************************)
(* Python ints of any size.                                                *)
(***************************************************************************)
RECURSIVE Norm(_)
Norm(b) == IF b /= <<>> /\ b[Len(b)] = 0 THEN Norm(SubSeq(b, 1, Len(b) - 1)) ELSE b

\* the magnitude b * m + c, for small m and c
RECURSIVE MulAdd(_, _, _)
MulAdd(b, m, c) ==
  IF b = <<>>
    THEN IF c = 0 THEN <<>> ELSE <<c % 256>> \o MulAdd(<<>>, m, c \div 256)
    ELSE LET t == b[1] * m + c
         IN <<t % 256>> \o MulAdd(Tail(b), m, t \div 256)

Nat2Mag(n) == Norm(MulAdd(<<>>, 1, n))

PyInt(neg, mag) == [neg |-> neg /\ mag /= <<>>, mag |-> mag]

Small(n) == PyInt(FALSE, Nat2Mag(n))

\* a < b on magnitudes
RECURSIVE MagLess(_, _)
MagLess(a, b) ==
  CASE Len(a) /= Len(b) -> Len(a) < Len(b)
    [] a = <<>> -> FALSE
    [] a[Len(a)] /= b[Len(b)] -> a[Len(a)] < b[Len(b)]
    [] OTHER -> MagLess(SubSeq(a, 1, Len(a) - 1), SubSeq(b, 1, Len(b) - 1))

\* x < y on ints
IntLess(x, y) ==
  CASE x.neg /\ ~y.neg -> TRUE
    [] ~x.neg /\ y.neg -> FALSE
    [] x.neg /\ y.neg -> MagLess(y.mag, x.mag)
    [] OTHER -> MagLess(x.mag, y.mag)

\* x << k
RECURSIVE ShiftLeft(_, _)
ShiftLeft(x, k) ==
  IF k = 0 THEN x ELSE ShiftLeft(PyInt(x.neg, Norm(MulAdd(x.mag, 2, 0))), k - 1)

RECURSIVE BitOr(_, _, _)
BitOr(a, b, bits) ==
  IF bits = 0 THEN 0
  ELSE (IF a % 2 = 1 \/ b % 2 = 1 THEN 1 ELSE 0) + 2 * BitOr(a \div 2, b \div 2, bits - 1)

\* x | y on magnitudes
RECURSIVE MagOr(_, _)
MagOr(a, b) ==
  CASE a = <<>> -> b
    [] b = <<>> -> a
    [] OTHER -> <<BitOr(a[1], b[1], 8)>> \o MagOr(Tail(a), Tail(b))

\* x | y, for x and y not negative
IntOr(x, y) == PyInt(FALSE, MagOr(x.mag, y.mag))

\* 2**62 - 1
TwoTo62Minus1 == PyInt(FALSE, <<255, 255, 255, 255, 255, 255, 255, 63>>)

\* int.to_bytes(length, "little")
to_bytes(x, length) ==
  CASE x.neg -> Raise("OverflowError", "can't convert negative int to unsigned", <<>>)
    [] Len(x.mag) > length -> Raise("OverflowError", "int too big to convert", <<>>)
    [] OTHER -> Return(x.mag \o [i \in 1..(length - Len(x.mag)) |-> 0])

RECURSIVE Strip(_)
Strip(s) ==
  CASE s /= <<>> /\ IsSpace(s[1]) -> Strip(Tail(s))
    [] s /= <<>> /\ IsSpace(s[Len(s)]) -> Strip(SubSeq(s, 1, Len(s) - 1))
    [] OTHER -> s

RECURSIVE DigitsValue(_, _, _)
DigitsValue(s, base, acc) ==
  CASE s = <<>> -> acc
    [] s[1] = "_" -> DigitsValue(Tail(s), base, acc)
    [] OTHER -> DigitsValue(Tail(s), base, MulAdd(acc, base, DigitValue(s[1], base)))

\* the digits d of a literal are well formed: digits, single underscores between
WellFormed(d, base) ==
  /\ d /= <<>>
  /\ d[1] /= "_"
  /\ d[Len(d)] /= "_"
  /\ \A i \in 1..Len(d) : d[i] = "_" \/ DigitValue(d[i], base) >= 0
  /\ \A i \in 1..(Len(d) - 1) : ~(d[i] = "_" /\ d[i + 1] = "_")

\* the literal t without its sign
Unsigned(t) == IF t /= <<>> /\ t[1] \in {"+", "-"} THEN Tail(t) ELSE t

\* the literal u without the prefix of its base
Unprefixed(u, base) ==
  CASE base /= 16 \/ Len(u) < 2 \/ u[1] /= "0" \/ u[2] \notin {"x", "X"} -> u
    [] Len(u) >= 3 /\ u[3] = "_" -> SubSeq(u, 4, Len(u))
    [] OTHER -> SubSeq(u, 3, Len(u))

\* int() of the str s, which is t once stripped and has the digits d
IntOf(s, t, d, base) ==
  IF WellFormed(d, base)
    THEN Return(PyInt(t[1] = "-", Norm(DigitsValue(d, base, <<>>))))
    ELSE Raise("ValueError",
               IF base = 16 THEN "invalid literal for int() with base 16: {!r}"
                            ELSE "invalid literal for int() with base 10: {!r}",
               <<s>>)

IntOfStripped(s, t, base) == IntOf(s, t, Unprefixed(Unsigned(t), base), base)

\* int(s, base) for a str s and a base of 10 or 16
int(s, base) == IntOfStripped(s, Strip(s), base)

\* a magnitude below 2**24 as a number
MagToNat(m) ==
  (IF Len(m) >= 1 THEN m[1] ELSE 0) + (IF Len(m) >= 2 THEN m[2] * 256 ELSE 0)
    + (IF Len(m) >= 3 THEN m[3] * 65536 ELSE 0)

\* chr(i)
chr(i) ==
  IF i.neg \/ ~MagLess(i.mag, <<0, 0, 17>>)
    THEN Raise("ValueError", "chr() arg not in range(0x110000)", <<>>)
    ELSE Return(CharOf(MagToNat(i.mag)))

\* ord(c) as an int
ord(c) == Small(Ord(c))

(***************************************************************************)
(* The value encoder.                                                      *)
(***************************************************************************)
False == [kind |-> "bool", value |-> FALSE]
True == [kind |-> "bool", value |-> TRUE]
None == [kind |-> "None"]
Unspecified == [kind |-> "Unspecified"]
Integer(n) == [kind |-> "int", value |-> n]
Char(c) == [kind |-> "Char", value |-> c]

CHAR_PREFIX == <<"#", "\\">>

startswith(s, prefix) == Len(s) >= Len(prefix) /\ SubSeq(s, 1, Len(prefix)) = prefix

\* a mistaken test of the range, which lets 2**62 through
OutOfRangeOffByOne(result) ==
  IntLess(result, Small(0)) \/ IntLess(PyInt(FALSE, <<0, 0, 0, 0, 0, 0, 0, 64>>), result)

\* the test of the integer's range
OutOfRange(result) == IntLess(result, Small(0)) \/ IntLess(TwoTo62Minus1, result)

\* chr() of what int() returned
ChrOf(code) == IF code.ok THEN chr(code.val) ELSE code

\* Char() of what chr() returned
CharOfChr(c) == IF c.ok THEN Return(Char(c.val)) ELSE c

\* the branch of parse_immediate that reads the character constant s
ParseCharData(s, char_data) ==
  CASE Len(char_data) = 1 /\ isascii(char_data) -> Return(Char(char_data[1]))
    [] Len(char_data) = 3 /\ char_data[1] = "x" /\ isascii(char_data) ->
         CharOfChr(ChrOf(int(Tail(char_data), 16)))
    [] OTHER ->
         Raise("ValueError",
               "Couldn't parse character constant {s} (not all are supported yet)",
               <<s>>)

\* the branch of parse_immediate that reads an integer, result being int(s)
CheckRange(result) ==
  CASE ~result.ok -> result
    [] OutOfRange(result.val) -> Raise("ValueError", "Integer {result} out of range", <<>>)
    [] OTHER -> Return(Integer(result.val))

parse_immediate(s) ==
  CASE s \in {<<"#", "f">>, <<"#", "F">>} -> Return(False)
    [] s \in {<<"#", "t">>, <<"#", "T">>} -> Return(True)
    [] s = <<"N", "U", "L", "L">> -> Return(None)
    [] s = <<"U", "N", "S", "P", "E", "C", "I", "F", "I", "E", "D">> ->
         Return(Unspecified)
    [] isnumeric(s) /\ isascii(s) -> CheckRange(int(s, 10))
    [] startswith(s, CHAR_PREFIX) ->
         ParseCharData(s, SubSeq(s, Len(CHAR_PREFIX) + 1, Len(s)))
    [] OTHER -> Raise("ValueError", "Couldn't parse immediate {s}", <<s>>)

\* a mistaken word of a character: the code point is not shifted
CharWordUnshifted(c) == IntOr(ord(c), Small(15))

\* the word of a character
CharWord(c) == IntOr(ShiftLeft(ord(c), 8), Small(15))

serialize_immediate(v) ==
  CASE v.kind = "bool" -> to_bytes(Small(IF v.value THEN 159 ELSE 31), 8)
    [] v.kind = "int" -> to_bytes(ShiftLeft(v.value, 2), 8)
    [] v.kind = "Char" -> to_bytes(CharWord(v.value), 8)
    [] v.kind = "None" -> to_bytes(Small(47), 8)
    [] v.kind = "Unspecified" ->
         to_bytes(PyInt(FALSE, <<255, 255, 255, 255, 255, 255, 255, 255>>), 8)
    [] OTHER -> Raise("AssertionError", "", <<>>)

DEFAULT_IMMEDIATE == to_bytes(Small(0), 8).val

(***************************************************************************)
(* The instruction assembler.                                              *)
(***************************************************************************)
\* the cases of the match statement of main, in its order
Instructions ==
  << [mnemonic |-> <<"L", "O", "A", "D">>,
      operands |-> 1, opcode |-> \h10AD000, immediate |-> "parse_immediate"],
     [mnemonic |-> <<"J", "U", "M", "P">>,
      operands |-> 1, opcode |-> \h70AD000, immediate |-> "int"],
     [mnemonic |-> <<"C", "J", "U", "M", "P">>,
      operands |-> 1, opcode |-> \hCA7000, immediate |-> "int"],
     [mnemonic |-> <<"G", "E", "T">>,
      operands |-> 1, opcode |-> \h9E7000, immediate |-> "int"],
     [mnemonic |-> <<"F", "O", "R", "G", "E", "T">>,
      operands |-> 0, opcode |-> \h49E7000, immediate |-> "default"],
     [mnemonic |-> <<"A", "D", "D", "1">>,
      operands |-> 0, opcode |-> \hADD1000, immediate |-> "default"],
     [mnemonic |-> <<"S", "U", "B", "1">>,
      operands |-> 0, opcode |-> \h50B1000, immediate |-> "default"],
     [mnemonic |-> <<"A", "D", "D">>,
      operands |-> 1, opcode |-> \h0ADD000, immediate |-> "int"],
     [mnemonic |-> <<"S", "U", "B">>,
      operands |-> 1, opcode |-> \h050B000, immediate |-> "int"],
     [mnemonic |-> <<"M", "U", "L">>,
      operands |-> 1, opcode |-> \h0A55000, immediate |-> "int"],
     [mnemonic |-> <<"L", "T">>,
      operands |-> 1, opcode |-> \h1700000, immediate |-> "int"],
     [mnemonic |-> <<"E", "Q">>,
      operands |-> 1, opcode |-> \hE3E3000, immediate |-> "int"],
     [mnemonic |-> <<"E", "Q", "P">>,
      operands |-> 1, opcode |-> \h3E3E000, immediate |-> "int"],
     [mnemonic |-> <<"S", "T", "R", "I", "N", "G">>,
      operands |-> 1, opcode |-> \h571F000, immediate |-> "int"],
     [mnemonic |-> <<"Z", "E", "R", "O", "P">>,
      operands |-> 0, opcode |-> \hEEEE000, immediate |-> "default"],
     [mnemonic |-> <<"S", "T", "R", "I", "N", "G", "R", "E", "F">>,
      operands |-> 0, opcode |-> \h571E000, immediate |-> "default"],
     [mnemonic |-> <<"S", "T", "R", "I", "N", "G", "S", "E", "T">>,
      operands |-> 0, opcode |-> \h5715000, immediate |-> "default"],
     [mnemonic |-> <<"S", "T", "R", "I", "N", "G", "A", "P", "P", "E", "N", "D">>,
      operands |-> 1, opcode |-> \h571A000, immediate |-> "int"],
     [mnemonic |-> <<"I", "N", "T", "E", "G", "E", "R", "P">>,
      operands |-> 0, opcode |-> \h1234000, immediate |-> "default"],
     [mnemonic |-> <<"B", "O", "O", "L", "E", "A", "N", "P">>,
      operands |-> 0, opcode |-> \hB001000, immediate |-> "default"],
     [mnemonic |-> <<"C", "H", "A", "R", "P">>,
      operands |-> 0, opcode |-> \hCACA000, immediate |-> "default"],
     [mnemonic |-> <<"N", "U", "L", "L", "P">>,
      operands |-> 0, opcode |-> \h4321000, immediate |-> "default"],
     [mnemonic |-> <<"N", "O", "T">>,
      operands |-> 0, opcode |-> \h7777000, immediate |-> "default"],
     [mnemonic |-> <<"I", "N", "T", "T", "O", "C", "H", "A", "R">>,
      operands |-> 0, opcode |-> \h170C000, immediate |-> "default"],
     [mnemonic |-> <<"C", "H", "A", "R", "T", "O", "I", "N", "T">>,
      operands |-> 0, opcode |-> \hC701000, immediate |-> "default"],
     [mnemonic |-> <<"F", "A", "L", "L">>,
      operands |-> 1, opcode |-> \hFA11000, immediate |-> "int"],
     [mnemonic |-> <<"C", "O", "N", "S">>,
      operands |-> 0, opcode |-> \hC0C0000, immediate |-> "default"],
     [mnemonic |-> <<"C", "A", "R">>,
      operands |-> 0, opcode |-> \hCA00000, immediate |-> "default"],
     [mnemonic |-> <<"C", "D", "R">>,
      operands |-> 0, opcode |-> \hCD00000, immediate |-> "default"] >>
\* the opcode of the instruction written after the last line
TerminatorOpcode == \hD0D0000

\* str.split()
RECURSIVE SplitFrom(_, _)
SplitFrom(s, current) ==
  CASE s = <<>> -> IF current = <<>> THEN <<>> ELSE <<current>>
    [] IsSpace(s[1]) ->
         (IF current = <<>> THEN <<>> ELSE <<current>>) \o SplitFrom(Tail(s), <<>>)
    [] OTHER -> SplitFrom(Tail(s), Append(current, s[1]))

split(s) == SplitFrom(s, <<>>)

\* the lines main loops over: those of stdin that str.strip() leaves not empty
RECURSIVE NonBlank(_)
NonBlank(ls) ==
  CASE ls = <<>> -> <<>>
    [] Strip(Head(ls)) /= <<>> -> <<Head(ls)>> \o NonBlank(Tail(ls))
    [] OTHER -> NonBlank(Tail(ls))

\* a mistaken match, which takes a line with more words than the case has
MatchingPrefix(words) ==
  {i \in 1..Len(Instructions) :
     /\ Len(words) >= 1 + Instructions[i].operands
     /\ words[1] = Instructions[i].mnemonic}

\* the cases of the match statement that match the words
Matching(words) ==
  {i \in 1..Len(Instructions) :
     /\ Len(words) = 1 + Instructions[i].operands
     /\ words[1] = Instructions[i].mnemonic}

First(hits) == IF hits = {} THEN 0 ELSE CHOOSE i \in hits : \A j \in hits : i <= j

\* the number of the first case that matches the words, 0 when none does
MatchCase(words) == First(Matching(words))

\* a mistaken start of a pass, which keeps the immediate of the pass before
StaleImmediate == immediate

\* the value of immediate when the match statement starts
LoopImmediate == DEFAULT_IMMEDIATE

\* serialize_immediate() of what parse_immediate() returned
Serialized(parsed) == IF parsed.ok THEN serialize_immediate(parsed.val) ELSE parsed

\* to_bytes() of what int() returned
NumberBytes(number) == IF number.ok THEN to_bytes(number.val, 8) ELSE number

\* the immediate a matched case computes
Immediate(case, words) ==
  CASE case.immediate = "default" -> Return(LoopImmediate)
    [] case.immediate = "parse_immediate" -> Serialized(parse_immediate(words[2]))
    [] OTHER -> NumberBytes(int(words[2], 10))

\* the bytes of an instruction, operand being what its case computed
Instruction(opcode, operand) ==
  IF operand.ok THEN Return(to_bytes(Small(opcode), 8).val \o operand.val) ELSE operand

\* the pass of the loop for a line that case n matches, none when n = 0
AssembleCase(line, words, n) ==
  IF n = 0 THEN Raise("ValueError", "Couldn't parse line {line}", <<line>>)
  ELSE Instruction(Instructions[n].opcode, Immediate(Instructions[n], words))

AssembleWords(line, words) == AssembleCase(line, words, MatchCase(words))

\* one pass of the loop of main: the bytes written for the line, or the error
AssembleLine(line) == AssembleWords(line, split(line))

\* a mistaken end of the program, which leaves the operand out
TerminatorOpcodeOnly == to_bytes(Small(TerminatorOpcode), 8).val

\* the bytes written after the loop
Terminator == to_bytes(Small(TerminatorOpcode), 8).val \o DEFAULT_IMMEDIATE

(***************************************************************************)
(* The inputs.                                                             *)
(***************************************************************************)
Digits(lo, hi) == {DecimalDigits[i + 1] : i \in lo..hi}

RECURSIVE Strings(_, _)
\* the strings of exactly n characters of the alphabet
Strings(alphabet, n) ==
  IF n = 0 THEN {<<>>}
  ELSE {<<c>> \o s : c \in alphabet, s \in Strings(alphabet, n - 1)}

StringsUpTo(alphabet, n) == UNION {Strings(alphabet, k) : k \in 0..n}

\* 2**62 and 2**64 in decimal
TwoTo62 ==
  <<"4", "6", "1", "1", "6", "8", "6", "0", "1", "8", "4", "2", "7", "3", "8", "7",
    "9", "0", "4">>
TwoTo64 ==
  <<"1", "8", "4", "4", "6", "7", "4", "4", "0", "7", "3", "7", "0", "9", "5", "5",
    "1", "6", "1", "6">>

\* the digit strings that differ from d in its last n digits at most
Around(d, n) == {SubSeq(d, 1, Len(d) - n) \o s : s \in Strings(Digits(0, 9), n)}

\* the digit strings near 2**62, some written with a leading zero or one digit longer
BoundaryTokens ==
  LET near == Around(TwoTo62, MaxSuffix)
  IN near \cup {<<"0">> \o d : d \in near} \cup {d \o <<"0">> : d \in near}

KeywordTokens ==
  { <<"#", "f">>, <<"#", "F">>, <<"#", "t">>, <<"#", "T">>, <<"N", "U", "L", "L">>,
    <<"U", "N", "S", "P", "E", "C", "I", "F", "I", "E", "D">>,
    <<"n", "u", "l", "l">>, <<"#", "n">>, <<"#", "t", "r", "u", "e">>, <<"#">> }

NumberAlphabet == {"0", "1", "9", "-", "+", "_", "chr(1635)", "chr(178)"}

NumberTokens == StringsUpTo(NumberAlphabet, MaxDigits) \ {<<>>}

CharAlphabet == {"0", "4", "a", "f", "F", "g", "x", "X", "+", "-", "_", "chr(233)"}

CharTokens == {CHAR_PREFIX \o s : s \in StringsUpTo(CharAlphabet, MaxCharData)}

HexAlphabet == Digits(0, 9) \cup {"a", "b", "c", "d", "e", "f"}

HexTokens == {CHAR_PREFIX \o <<"x">> \o s : s \in Strings(HexAlphabet, 2)}

AsciiTokens == {CHAR_PREFIX \o <<Printable[i]>> : i \in 1..Len(Printable)}

\* the arguments of parse_immediate
Tokens ==
  KeywordTokens \cup NumberTokens \cup BoundaryTokens \cup CharTokens
    \cup HexTokens \cup AsciiTokens

Line(words) ==
  CASE Len(words) = 1 -> words[1] \o <<"\n">>
    [] Len(words) = 2 -> words[1] \o <<" ">> \o words[2] \o <<"\n">>
    [] OTHER -> words[1] \o <<" ">> \o words[2] \o <<" ">> \o words[3] \o <<"\n">>

Mnemonics(operands) ==
  {Instructions[i].mnemonic : i \in {j \in 1..Len(Instructions) :
                                        Instructions[j].operands = operands}}

LOAD == <<"L", "O", "A", "D">>
JUMP == <<"J", "U", "M", "P">>
ADD1 == <<"A", "D", "D", "1">>
FOO == <<"F", "O", "O">>

\* the lines that make the first lines of an input
CoreLines ==
  { Line(<<ADD1>>), Line(<<LOAD, <<"#", "t">>>>), Line(<<JUMP, <<"3">>>>),
    <<"\n">>, <<" ", "\t", "\n">>, Line(<<FOO, <<"1">>>>) }

\* operands of every instruction that takes a number, and more of them for JUMP
IntOperands == {<<"3">>, <<"-", "1">>, <<"x">>, TwoTo64}

JumpOperands ==
  { <<"+", "7">>, <<"-", "0">>, <<"1", "_", "0">>, <<"chr(1635)">>, <<"3", ".", "5">>,
    <<"#", "t">>, TwoTo62, SubSeq(TwoTo64, 1, Len(TwoTo64) - 1) \o <<"5">> }

LoadOperands ==
  { <<"#", "f">>, <<"#", "T">>, <<"N", "U", "L", "L">>,
    <<"U", "N", "S", "P", "E", "C", "I", "F", "I", "E", "D">>,
    <<"0">>, <<"4", "2">>, <<"-", "1">>, TwoTo62,
    SubSeq(TwoTo62, 1, Len(TwoTo62) - 1) \o <<"3">>,
    CHAR_PREFIX \o <<"a">>, CHAR_PREFIX \o <<"x", "4", "1">>,
    CHAR_PREFIX \o <<"x", "f", "f">>, CHAR_PREFIX \o <<"x", "+", "4">>,
    CHAR_PREFIX \o <<"x", "-", "4">>, CHAR_PREFIX \o <<"x", "g", "g">>,
    CHAR_PREFIX \o <<"a", "b">>, CHAR_PREFIX \o <<"x", "4">>, <<"f", "o", "o">> }

\* the lines that make the last line of an input
LastLines ==
  {Line(<<m>>) : m \in Mnemonics(0) \cup Mnemonics(1)}
    \cup {Line(<<m, <<"5">>>>) : m \in Mnemonics(0)}
    \cup {Line(<<m, v>>) : m \in Mnemonics(1) \ {LOAD}, v \in IntOperands}
    \cup {Line(<<JUMP, v>>) : v \in JumpOperands}
    \cup {Line(<<LOAD, v>>) : v \in LoadOperands}
    \cup {Line(<<m, <<"1">>, <<"2">>>>) : m \in {JUMP, ADD1, LOAD}}
    \cup { Line(<<FOO>>), Line(<<<<"a", "d", "d", "1">>>>), <<" ", " ">> \o Line(<<ADD1>>),
           ADD1, JUMP \o <<"\t", " ">> \o <<"3">>, <<"chr(160)", "\n">> }

\* what stdin holds: at most MaxLines of the first kind, then at most one of the last
Inputs ==
  {s \o t : s \in StringsUpTo(CoreLines, MaxLines),
            t \in {<<>>} \cup {<<l>> : l \in LastLines}}

(***************************************************************************)
(* main.                                                                   *)
(***************************************************************************)
Init ==
  /\ stdin \in Inputs
  /\ lines = NonBlank(stdin)
  /\ pos = 1
  /\ immediate = DEFAULT_IMMEDIATE
  /\ out = <<>>
  /\ pc = "loop"
  /\ error = <<>>
  /\ tok = <<>> /\ val = <<>> /\ word = <<>> /\ epc = "idle"

\* the pass returned the bytes r.val: os.write
Written(r) ==
  /\ r.ok
  /\ immediate' = SubSeq(r.val, 9, 16)
  /\ out' = out \o r.val

\* the pass raised r
Raised(r) ==
  /\ ~r.ok
  /\ error' = r

\* a pass of the loop that writes the instruction of its line
WriteInstruction ==
  /\ pc = "loop"
  /\ pos <= Len(lines)
  /\ Written(AssembleLine(lines[pos]))
  /\ pos' = pos + 1
  /\ UNCHANGED <<stdin, lines, pc, error>>
  /\ UNCHANGED encVars

\* a mistaken pass, which goes on to the next line after the error
SkipLine ==
  /\ pc = "loop"
  /\ pos <= Len(lines)
  /\ Raised(AssembleLine(lines[pos]))
  /\ immediate' = LoopImmediate
  /\ pos' = pos + 1
  /\ UNCHANGED <<stdin, lines, pc, out>>
  /\ UNCHANGED encVars

\* a pass of the loop that raises: main ends there
RaiseError ==
  /\ pc = "loop"
  /\ pos <= Len(lines)
  /\ Raised(AssembleLine(lines[pos]))
  /\ immediate' = LoopImmediate
  /\ pc' = "failed"
  /\ UNCHANGED <<stdin, lines, pos, out>>
  /\ UNCHANGED encVars

\* the write that follows the loop
WriteTerminator ==
  /\ pc = "loop"
  /\ pos > Len(lines)
  /\ out' = out \o Terminator
  /\ pc' = "done"
  /\ UNCHANGED <<stdin, lines, pos, immediate, error>>
  /\ UNCHANGED encVars

Next == WriteInstruction \/ RaiseError \/ WriteTerminator

Spec == Init /\ [][Next]_vars

(***************************************************************************)
(* The value encoder on its own: a token is parsed, and the value          *)
(* serialized.                                                             *)
(***************************************************************************)
InitEncoder ==
  /\ tok \in Tokens
  /\ val = <<>> /\ word = <<>> /\ epc = "parse"
  /\ stdin = <<>> /\ lines = <<>> /\ pos = 1 /\ immediate = DEFAULT_IMMEDIATE /\ out = <<>>
  /\ pc = "idle" /\ error = <<>>

ParseImmediate ==
  /\ epc = "parse"
  /\ val' = parse_immediate(tok)
  /\ epc' = IF val'.ok THEN "parsed" ELSE "raised"
  /\ UNCHANGED <<tok, word>>
  /\ UNCHANGED asmVars

SerializeImmediate ==
  /\ epc = "parsed"
  /\ word' = serialize_immediate(val.val)
  /\ epc' = IF word'.ok THEN "serialized" ELSE "raised"
  /\ UNCHANGED <<tok, val>>
  /\ UNCHANGED asmVars

NextEncoder == ParseImmediate \/ SerializeImmediate

SpecEncoder == InitEncoder /\ [][NextEncoder]_vars

(***************************************************************************)
(* What the claims speak of.                                               *)
(***************************************************************************)
\* the k-th instruction of the output
Instr(k) == SubSeq(out, 16 * (k - 1) + 1, 16 * k)

\* the number of whole instructions written
NumWritten == Len(out) \div 16

Zeros8 == <<0, 0, 0, 0, 0, 0, 0, 0>>

\* opcode 0xD0D0000 and a zero operand, little-endian
TerminatorBytes == <<0, 0, 13, 13, 0, 0, 0, 0>> \o Zeros8

\* the places in stdin of the lines that are not blank
NonBlankAt ==
  {i \in 1..Len(stdin) : \E j \in 1..Len(stdin[i]) : stdin[i][j] \notin Whitespace}

NumLines == Cardinality(NonBlankAt)

\* the k-th line of stdin that is not blank
KthLine(k) ==
  stdin[CHOOSE i \in NonBlankAt : Cardinality({j \in NonBlankAt : j < i}) = k - 1]

\* the first word and the number of words are an entry of the table
WordsInTable(words) ==
  \E i \in 1..Len(Instructions) :
    /\ Len(words) = 1 + Instructions[i].operands
    /\ words[1] = Instructions[i].mnemonic

InTable(line) == WordsInTable(split(line))

\* the line is processed without an error
Valid(line) == AssembleLine(line).ok

\* C1: a run in which a line fails writes no byte at all.
C1_AllOrNothing == pc = "failed" => out = <<>>

\* C2: when all N lines that are not blank are valid, the output is N + 1
\* instructions of 16 bytes, and the terminator is the last of them and no other.
C2_CountAndTerminator ==
  pc = "done" =>
    /\ Len(out) = 16 * (NumLines + 1)
    /\ Instr(NumLines + 1) = TerminatorBytes
    /\ \A k \in 1..NumLines : Instr(k) /= TerminatorBytes
    /\ (NumLines = 0 => out = TerminatorBytes)

C2_Witness == pc = "done" /\ NumLines = 2 /\ Len(stdin) > NumLines

\* C3: the k-th instruction written is the one the k-th line that is not blank
\* gives on its own, whatever stands before it, after it or between; a line
\* that is a mnemonic alone has an operand of zeros.
C3_OrderAndIndependence ==
  /\ NumWritten = (IF pc = "done" THEN pos ELSE pos - 1)
  /\ \A k \in 1..(pos - 1) :
       /\ Instr(k) = AssembleLine(KthLine(k)).val
       /\ Len(split(KthLine(k))) = 1 => SubSeq(Instr(k), 9, 16) = Zeros8

C3_Witness ==
  /\ pc = "done"
  /\ Len(stdin) > NumLines
  /\ \E k \in 2..NumLines :
       /\ Len(split(KthLine(k))) = 1
       /\ SubSeq(Instr(k - 1), 9, 16) /= Zeros8

\* the quotient of the magnitude by a small number, and the remainder
RECURSIVE DivMod(_, _, _)
DivMod(m, d, carry) ==
  IF m = <<>> THEN [quot |-> <<>>, rem |-> carry]
  ELSE LET t == carry * 256 + m[Len(m)]
           rest == DivMod(SubSeq(m, 1, Len(m) - 1), d, t % d)
       IN [quot |-> Append(rest.quot, t \div d), rem |-> rest.rem]

\* the value a word stands for, by its low-order bits
Decode(w) ==
  CASE w[1] % 4 = 0 -> Integer(PyInt(FALSE, Norm(DivMod(w, 4, 0).quot)))
    [] w[1] = 31 -> False
    [] w[1] = 159 -> True
    [] w[1] = 15 /\ Len(Norm(Tail(w))) <= 2 -> Char(CharOf(MagToNat(Norm(Tail(w)))))
    [] w[1] = 47 -> None
    [] w = <<255, 255, 255, 255, 255, 255, 255, 255>> -> Unspecified
    [] OTHER -> [kind |-> "none of them"]

\* C4: the word of a value, read by its tag bits, is that value again.
C4_RoundTrip ==
  epc = "serialized" => Len(word.val) = 8 /\ Decode(word.val) = val.val

C4_Witness ==
  /\ epc = "serialized"
  /\ val.val = Char("chr(255)")
  /\ word.val = <<15, 255, 0, 0, 0, 0, 0, 0>>

IsDigitString(s) == s /= <<>> /\ \A i \in 1..Len(s) : s[i] \in Digits(0, 9)

RECURSIVE StripZeros(_)
StripZeros(s) == IF Len(s) > 1 /\ s[1] = "0" THEN StripZeros(Tail(s)) ELSE s

\* a <= b for digit strings without leading zeros
RECURSIVE DecimalAtMost(_, _)
DecimalAtMost(a, b) ==
  CASE Len(a) /= Len(b) -> Len(a) < Len(b)
    [] a = <<>> -> TRUE
    [] a[1] /= b[1] -> Ord(a[1]) < Ord(b[1])
    [] OTHER -> DecimalAtMost(Tail(a), Tail(b))

\* the magnitude in decimal
RECURSIVE ToDecimal(_)
ToDecimal(m) ==
  IF Len(m) <= 1 /\ MagToNat(m) < 10 THEN <<DecimalDigits[MagToNat(m) + 1]>>
  ELSE ToDecimal(Norm(DivMod(m, 10, 0).quot)) \o <<DecimalDigits[DivMod(m, 10, 0).rem + 1]>>

\* 2**62 - 1 in decimal
MaxIntegerDecimal == SubSeq(TwoTo62, 1, Len(TwoTo62) - 1) \o <<"3">>

\* C5: a string of ASCII digits parses to its number when that is 2**62 - 1 at
\* most, and its word has 8 bytes; above, the parse fails on the range.
C5_IntegerBound ==
  (epc /= "parse" /\ IsDigitString(tok)) =>
    IF DecimalAtMost(StripZeros(tok), MaxIntegerDecimal)
      THEN /\ val.ok
           /\ val.val.kind = "int"
           /\ ~val.val.value.neg
           /\ ToDecimal(val.val.value.mag) = StripZeros(tok)
           /\ epc /= "raised"
           /\ epc = "serialized" => Len(word.val) = 8
      ELSE /\ ~val.ok
           /\ val.exc = "ValueError"
           /\ val.text = "Integer {result} out of range"

C5_Witness ==
  /\ epc = "serialized"
  /\ tok = MaxIntegerDecimal
  /\ word.val = <<252, 255, 255, 255, 255, 255, 255, 255>>

IsHexDigit(c) ==
  c \in Digits(0, 9) \cup {"a", "b", "c", "d", "e", "f", "A", "B", "C", "D", "E", "F"}

\* C6: a token that starts with #\ is a character exactly when one ASCII
\* character follows, or x and two hexadecimal digits; the others fail.
C6_CharacterForms ==
  (epc /= "parse" /\ startswith(tok, CHAR_PREFIX)) =>
    LET data == SubSeq(tok, 3, Len(tok))
    IN CASE Len(data) = 1 /\ Ord(data[1]) < 128 -> val.ok /\ val.val = Char(data[1])
         [] Len(data) = 3 /\ data[1] = "x" /\ IsHexDigit(data[2]) /\ IsHexDigit(data[3]) ->
              /\ val.ok
              /\ val.val = Char(CharOf(16 * DigitOf(Ord(data[2])) + DigitOf(Ord(data[3]))))
         [] OTHER -> ~val.ok /\ val.exc = "ValueError"

\* an optional sign and ASCII digits
IsIntegerLiteral(s) ==
  IsDigitString(IF s /= <<>> /\ s[1] \in {"+", "-"} THEN Tail(s) ELSE s)

\* the words are a mnemonic that takes a number, which is not LOAD, and an operand
WordsTakeNumber(words) == Len(words) = 2 /\ words[1] \in Mnemonics(1) \ {LOAD}

TakesNumber(line) == WordsTakeNumber(split(line))

\* C7: a line that takes a number fails only when its operand is no integer
\* literal, and then on the format.
C7_RawIntegerOperands ==
  (pc = "failed" /\ TakesNumber(lines[pos])) =>
    ~IsIntegerLiteral(split(lines[pos])[2]) /\ error.exc = "ValueError"

\* C8: a line whose first word and number of words are no entry of the table is
\* never passed: the run fails there, the error carries the line, and nothing
\* is written for it.
C8_Unrecognized ==
  \A k \in 1..NumLines :
    ~InTable(KthLine(k)) =>
      /\ pos <= k
      /\ pc /= "done"
      /\ NumWritten < k
      /\ (pos = k /\ pc = "failed") =>
           error = Raise("ValueError", "Couldn't parse line {line}", <<KthLine(k)>>)

C8_Witness ==
  /\ pc = "failed"
  /\ pos = 2
  /\ split(lines[pos]) = <<ADD1, <<"5">>>>
  /\ error.args = <<lines[pos]>>

\* C9: the message of every error carries the line that failed or a word of it.
C9_ErrorNamesOffender ==
  pc = "failed" =>
    \E i \in 1..Len(error.args) :
      \/ error.args[i] = lines[pos]
      \/ \E j \in 1..Len(split(lines[pos])) : error.args[i] = split(lines[pos])[j]

\* C10: the run stops at the first line that fails, with the instructions of
\* the lines before it and nothing more; the terminator is in the output
\* exactly when main has returned, and then every line was valid.
C10_AbortOnFirstError ==
  /\ (\E k \in 1..NumWritten : Instr(k) = TerminatorBytes) <=> pc = "done"
  /\ pc = "done" => \A k \in 1..NumLines : Valid(KthLine(k))
  /\ pc = "failed" =>
       /\ ~Valid(KthLine(pos))
       /\ \A k \in 1..(pos - 1) : Valid(KthLine(k))
       /\ NumWritten = pos - 1
  /\ (\A k \in 1..NumLines : Valid(KthLine(k))) => pc /= "failed"
  /\ pos <= NumLines + 1

C10_Witness == pc = "failed" /\ pos = 2 /\ NumLines = 3
====
